---- MODULE Spec2Model ----
(***************************************************************************)
(* Model of member_app.py: the member store, the creation / listing /     *)
(* deletion / CSV-export handlers, the expiry calculator and the query     *)
(* filter builder.                                                         *)
(*                                                                         *)
(* Text is a sequence of characters; a character is a one-token string.   *)
(* The Korean syllables of the membership types are written romanised,    *)
(* one token per syllable.  A date is its proleptic Gregorian ordinal      *)
(* (date.toordinal()), 1 = 0001-01-01.                                     *)
(***************************************************************************)
EXTENDS Integers, Sequences, FiniteSets, TLC

VARIABLES members, flashes, request, response

vars == <<members, flashes, request, response>>

\* ------------------------------------------------------------------ bounds
MaxId == 2
MaxFlashes == 1

\* ------------------------------------------------------------ Python values
\* None where a str is expected (request.form.get / a NULL text column).
None == <<"None">>
\* None where a date is expected (no ordinal is 0).
NoDate == 0

Falsy(s) == s = None \/ s = <<>>
\* x or d
Or(x, d) == IF Falsy(x) THEN d ELSE x

Whitespace == {" ", "\n", "\t"}

RECURSIVE lstrip(_)
lstrip(s) == IF s # <<>> /\ Head(s) \in Whitespace THEN lstrip(Tail(s)) ELSE s

RECURSIVE rstrip(_)
rstrip(s) ==
  IF s # <<>> /\ s[Len(s)] \in Whitespace THEN rstrip(SubSeq(s, 1, Len(s) - 1)) ELSE s

\* str.strip()
strip(s) == rstrip(lstrip(s))

\* str.replace(old, new), left to right, non-overlapping
RECURSIVE replace(_, _, _)
replace(s, old, new) ==
  IF Len(s) < Len(old) THEN s
  ELSE IF SubSeq(s, 1, Len(old)) = old
       THEN new \o replace(SubSeq(s, Len(old) + 1, Len(s)), old, new)
       ELSE <<Head(s)>> \o replace(Tail(s), old, new)

\* ------------------------------------------------------------------- dates
Digits == {"0", "1", "2", "3", "4", "5", "6", "7", "8", "9"}

DigitVal(c) ==
  CASE c = "0" -> 0 [] c = "1" -> 1 [] c = "2" -> 2 [] c = "3" -> 3 [] c = "4" -> 4
    [] c = "5" -> 5 [] c = "6" -> 6 [] c = "7" -> 7 [] c = "8" -> 8 [] c = "9" -> 9

DigitChar(n) ==
  CASE n = 0 -> "0" [] n = 1 -> "1" [] n = 2 -> "2" [] n = 3 -> "3" [] n = 4 -> "4"
    [] n = 5 -> "5" [] n = 6 -> "6" [] n = 7 -> "7" [] n = 8 -> "8" [] n = 9 -> "9"

RECURSIVE Number(_)
Number(t) == IF t = <<>> THEN 0 ELSE 10 * Number(SubSeq(t, 1, Len(t) - 1)) + DigitVal(t[Len(t)])

AllDigits(t) == \A i \in 1..Len(t) : t[i] \in Digits

\* strptime's directive patterns: %Y = \d\d\d\d, %m = 1[0-2]|0[1-9]|[1-9],
\* %d = 3[01]|[12]\d|0[1-9]|[1-9]| [1-9]
MatchesY(t) == Len(t) = 4 /\ AllDigits(t)

MatchesM(t) ==
  \/ Len(t) = 2 /\ t[1] = "1" /\ t[2] \in {"0", "1", "2"}
  \/ Len(t) = 2 /\ t[1] = "0" /\ t[2] \in Digits \ {"0"}
  \/ Len(t) = 1 /\ t[1] \in Digits \ {"0"}

MatchesD(t) ==
  \/ Len(t) = 2 /\ t[1] = "3" /\ t[2] \in {"0", "1"}
  \/ Len(t) = 2 /\ t[1] \in {"1", "2"} /\ t[2] \in Digits
  \/ Len(t) = 2 /\ t[1] \in {"0", " "} /\ t[2] \in Digits \ {"0"}
  \/ Len(t) = 1 /\ t[1] \in Digits \ {"0"}

\* the text of the day directive, a leading blank dropped
DayText(t) == IF t[1] = " " THEN Tail(t) ELSE t

is_leap(y) == y % 4 = 0 /\ (y % 100 # 0 \/ y % 400 = 0)

days_in_month(y, m) ==
  IF m = 2 THEN (IF is_leap(y) THEN 29 ELSE 28)
  ELSE IF m \in {4, 6, 9, 11} THEN 30 ELSE 31

RECURSIVE days_before_month(_, _)
days_before_month(y, m) ==
  IF m = 1 THEN 0 ELSE days_before_month(y, m - 1) + days_in_month(y, m - 1)

days_before_year(y) ==
  (y - 1) * 365 + ((y - 1) \div 4) - ((y - 1) \div 100) + ((y - 1) \div 400)

\* date(y, m, d).toordinal()
ymd2ord(y, m, d) == days_before_year(y) + days_before_month(y, m) + d

MINYEAR == 1
MAXYEAR == 9999
\* date.max.toordinal()
MaxOrdinal == ymd2ord(MAXYEAR, 12, 31)

\* the positions at which "%Y-%m-%d" can split s into its three directives
Splits(s) ==
  {k \in {7, 8} :
     /\ Len(s) > k
     /\ MatchesY(SubSeq(s, 1, 4))
     /\ s[5] = "-"
     /\ MatchesM(SubSeq(s, 6, k - 1))
     /\ s[k] = "-"
     /\ MatchesD(SubSeq(s, k + 1, Len(s)))}

\* parse_date without the calendar's check of the day against the month
parse_date_unvalidated(s) ==
  IF Falsy(s) THEN NoDate
  ELSE IF Splits(s) = {} THEN NoDate
  ELSE LET k == CHOOSE k \in Splits(s) : TRUE
       IN ymd2ord(Number(SubSeq(s, 1, 4)), Number(SubSeq(s, 6, k - 1)),
                  Number(DayText(SubSeq(s, k + 1, Len(s)))))

\* datetime.strptime(s, "%Y-%m-%d").date(), None on any exception
parse_date(s) ==
  IF Falsy(s) THEN NoDate
  ELSE IF Splits(s) = {} THEN NoDate
  ELSE LET k == CHOOSE k \in Splits(s) : TRUE
           y == Number(SubSeq(s, 1, 4))
           m == Number(SubSeq(s, 6, k - 1))
           d == Number(DayText(SubSeq(s, k + 1, Len(s))))
       IN IF y >= MINYEAR /\ d <= days_in_month(y, m) THEN ymd2ord(y, m, d) ELSE NoDate

\* the derived date preferred to the explicit one
OrDate_prefers_derived(x, d) == IF d # NoDate THEN d ELSE x

\* expiry_input or auto_expiry(...), on Optional[date]
OrDate(x, d) == IF x # NoDate THEN x ELSE d

\* ------------------------------------------------------- expiry calculator
Monthly == <<"wol", "gan">>
Quarterly == <<"bun", "gi">>
Yearly == <<"yeon", "gan">>
GardenBoxOnly == <<"sang", "ja", "teot", "bat", "man">>

DAYS_MAP == (Monthly :> 30) @@ (Quarterly :> 90) @@ (Yearly :> 365) @@ (GardenBoxOnly :> 14)

\* DAYS_MAP.get(membership_type); 0 stands for None, both fail "if days"
DAYS_MAP_get(membership_type) ==
  IF membership_type \in DOMAIN DAYS_MAP THEN DAYS_MAP[membership_type] ELSE 0

\* join_date + timedelta(days=days) raises OverflowError past date.max
auto_expiry_raises(join_date, membership_type) ==
  /\ join_date # NoDate
  /\ DAYS_MAP_get(membership_type) # 0
  /\ join_date + DAYS_MAP_get(membership_type) > MaxOrdinal

auto_expiry(join_date, membership_type) ==
  IF join_date = NoDate THEN NoDate
  ELSE IF DAYS_MAP_get(membership_type) # 0
       THEN join_date + DAYS_MAP_get(membership_type)
       ELSE NoDate

\* ------------------------------------------------------------ text matching
UpperCase == <<"A", "B", "C", "D", "E", "F", "G", "H", "I", "J", "K", "L", "M",
               "N", "O", "P", "Q", "R", "S", "T", "U", "V", "W", "X", "Y", "Z">>
LowerCase == <<"a", "b", "c", "d", "e", "f", "g", "h", "i", "j", "k", "l", "m",
               "n", "o", "p", "q", "r", "s", "t", "u", "v", "w", "x", "y", "z">>

lower_char(c) ==
  IF \E i \in 1..Len(UpperCase) : UpperCase[i] = c
  THEN LowerCase[CHOOSE i \in 1..Len(UpperCase) : UpperCase[i] = c]
  ELSE c

\* SQL lower()
lower(s) == [i \in 1..Len(s) |-> lower_char(s[i])]

\* SQL LIKE without ESCAPE: % is any run of characters, _ any one character
RECURSIVE like(_, _)
like(s, pattern) ==
  IF pattern = <<>> THEN s = <<>>
  ELSE IF Head(pattern) = "%"
       THEN like(s, Tail(pattern)) \/ (s # <<>> /\ like(Tail(s), pattern))
       ELSE /\ s # <<>>
            /\ Head(pattern) = "_" \/ Head(pattern) = Head(s)
            /\ like(Tail(s), Tail(pattern))

\* column.ilike(pattern): lower(column) LIKE lower(pattern); NULL never matches
ilike(column, pattern) == column # None /\ like(lower(column), lower(pattern))

\* ------------------------------------------------------ query filter builder
\* a NULL column passing the upper bound
DateLe_null_passes(column, bound) == column <= bound

\* the SQL comparisons of a nullable date column with a bound
DateGe(column, bound) == column # NoDate /\ column >= bound
DateLe(column, bound) == column # NoDate /\ column <= bound
DateLt(column, bound) == column # NoDate /\ column < bound

\* only a known membership type constrains
type_equals_known_only(column, mtype) == mtype \in DOMAIN DAYS_MAP => column = mtype

\* Member.membership_type == mtype
type_equals(column, mtype) == column = mtype

Active == <<"a", "c", "t", "i", "v", "e">>
Expired == <<"e", "x", "p", "i", "r", "e", "d">>

apply_filters(query, args, today) ==
  LET q == strip(Or(args.q, <<>>))
      mtype == strip(Or(args.membership_type, <<>>))
      expired == strip(Or(args.expired, <<>>))
      join_from == parse_date(args.join_from)
      join_to == parse_date(args.join_to)
      exp_from == parse_date(args.exp_from)
      exp_to == parse_date(args.exp_to)
      like_q == <<"%">> \o q \o <<"%">>
  IN {m \in query :
        /\ q # <<>> => \/ ilike(m.name, like_q)
                       \/ ilike(m.contact, like_q)
                       \/ ilike(m.source, like_q)
                       \/ ilike(m.note, like_q)
        /\ mtype # <<>> => type_equals(m.membership_type, mtype)
        /\ expired = Active => m.expiry_date = NoDate \/ DateGe(m.expiry_date, today)
        /\ expired = Expired => m.expiry_date # NoDate /\ DateLt(m.expiry_date, today)
        /\ join_from # NoDate => DateGe(m.join_date, join_from)
        /\ join_to # NoDate => DateLe(m.join_date, join_to)
        /\ exp_from # NoDate => DateGe(m.expiry_date, exp_from)
        /\ exp_to # NoDate => DateLe(m.expiry_date, exp_to)}

\* order_by(Member.id.asc()).all()
RECURSIVE order_by_id_asc(_)
order_by_id_asc(rows) ==
  IF rows = {} THEN <<>>
  ELSE LET first == CHOOSE m \in rows : \A o \in rows : m.id <= o.id
       IN <<first>> \o order_by_id_asc(rows \ {first})

\* order_by(Member.id.desc()).all()
RECURSIVE order_by_id_desc(_)
order_by_id_desc(rows) ==
  IF rows = {} THEN <<>>
  ELSE LET first == CHOOSE m \in rows : \A o \in rows : m.id >= o.id
       IN <<first>> \o order_by_id_desc(rows \ {first})

\* --------------------------------------------------------------- the store
\* a Member row (created_at / updated_at are written once and never read by
\* a handler's control flow; they are left out)
Member(id, name, contact, membership_type, join_date, expiry_date, source, note) ==
  [id |-> id, name |-> name, contact |-> contact, membership_type |-> membership_type,
   join_date |-> join_date, expiry_date |-> expiry_date, source |-> source, note |-> note]

\* INTEGER PRIMARY KEY: the largest id in the table plus one
next_id ==
  IF members = {} THEN 1
  ELSE 1 + CHOOSE i \in {m.id : m \in members} : \A m \in members : m.id <= i

\* the messages given to flash()
FlashRequired == "required"
FlashCreated == "created"
FlashDeleted == "deleted"

\* what a handler leaves behind: the table, the flashed messages, the response
Outcome(table, flashed, status, route, location, args, body) ==
  [members |-> table, flashes |-> flashed,
   response |-> [status |-> status, route |-> route, location |-> location,
                 args |-> args, body |-> body]]

NoArgs ==
  [q |-> None, membership_type |-> None, expired |-> None, join_from |-> None,
   join_to |-> None, exp_from |-> None, exp_to |-> None]

\* ------------------------------------------------------------------ handlers
\* the locals of index() on a POST, lines 287-295
index_locals(form) ==
  LET join_date == parse_date(form.join_date)
      membership_type == strip(Or(form.membership_type, <<>>))
      expiry_input == parse_date(form.expiry_date)
  IN [name |-> strip(Or(form.name, <<>>)),
      contact |-> strip(Or(form.contact, <<>>)),
      membership_type |-> membership_type,
      join_date |-> join_date,
      expiry_input |-> expiry_input,
      raises |-> expiry_input = NoDate /\ auto_expiry_raises(join_date, membership_type),
      expiry_date |-> OrDate(expiry_input, auto_expiry(join_date, membership_type)),
      source |-> strip(Or(form.source, <<>>)),
      note |-> strip(Or(form.note, <<>>))]

\* POST / : index(), the registration branch
index_post(form) ==
  LET l == index_locals(form)
  IN IF l.raises
     THEN \* OverflowError escapes the handler
          Outcome(members, flashes, 500, "index", "none", NoArgs, <<>>)
     ELSE IF l.name = <<>> \/ l.membership_type = <<>> \/ l.join_date = NoDate
     THEN Outcome(members, Append(flashes, FlashRequired), 302, "index", "index",
                  NoArgs, <<>>)
     ELSE Outcome(members \cup {Member(next_id, l.name, Or(l.contact, None),
                                       l.membership_type, l.join_date, l.expiry_date,
                                       Or(l.source, None), Or(l.note, None))},
                  Append(flashes, FlashCreated), 302, "index", "index?args",
                  NoArgs, <<>>)

\* GET / : index(), the listing branch; the page echoes request.args and
\* rendering consumes the flashed messages
index_get(args, today) ==
  Outcome(members, <<>>, 200, "index", "none", args,
          order_by_id_desc(apply_filters(members, args, today)))

\* deletion by filter, without get_or_404
delete_member_unchecked(member_id) ==
  Outcome({m \in members : m.id # member_id}, Append(flashes, FlashDeleted),
          302, "delete_member", "index?args", NoArgs, <<>>)

\* POST /delete/<int:member_id>
delete_member(member_id) ==
  IF \A m \in members : m.id # member_id
  THEN \* get_or_404 aborts
       Outcome(members, flashes, 404, "delete_member", "none", NoArgs, <<>>)
  ELSE Outcome({m \in members : m.id # member_id}, Append(flashes, FlashDeleted),
               302, "delete_member", "index?args", NoArgs, <<>>)

\* date.isoformat()
two_digits(n) == <<DigitChar(n \div 10), DigitChar(n % 10)>>

\* date.fromordinal(n) as (year, month, day)
ord2ymd(n) ==
  LET n0 == n - 1
      n400 == n0 \div 146097
      r400 == n0 % 146097
      n100 == r400 \div 36524
      r100 == r400 % 36524
      n4 == r100 \div 1461
      r4 == r100 % 1461
      n1 == r4 \div 365
      r1 == r4 % 365
      year == n400 * 400 + 1 + n100 * 100 + n4 * 4 + n1
      guess == (r1 + 50) \div 32
      month == IF days_before_month(year, guess) > r1 THEN guess - 1 ELSE guess
  IN IF n1 = 4 \/ n100 = 4 THEN <<year - 1, 12, 31>>
     ELSE <<year, month, r1 - days_before_month(year, month) + 1>>

isoformat(n) ==
  LET ymd == ord2ymd(n)
  IN two_digits(ymd[1] \div 100) \o two_digits(ymd[1] % 100) \o <<"-">>
       \o two_digits(ymd[2]) \o <<"-">> \o two_digits(ymd[3])

\* the row export_csv writes for one member
csv_row(m) ==
  <<m.id,
    m.name,
    Or(m.contact, <<>>),
    Or(m.membership_type, <<>>),
    IF m.join_date # NoDate THEN isoformat(m.join_date) ELSE <<>>,
    IF m.expiry_date # NoDate THEN isoformat(m.expiry_date) ELSE <<>>,
    Or(m.source, <<>>),
    replace(Or(m.note, <<>>), <<"\\", "n">>, <<" ">>)>>

\* GET /export.csv
export_csv(args, today) ==
  LET rows == order_by_id_asc(apply_filters(members, args, today))
  IN Outcome(members, flashes, 200, "export_csv", "none", NoArgs,
             [i \in 1..Len(rows) |-> csv_row(rows[i])])

\* ------------------------------------------------------------------ inputs
Kim == <<"K", "i", "m">>
Vip == <<"V", "I", "P">>
D20240101 == <<"2", "0", "2", "4", "-", "0", "1", "-", "0", "1">>
D20240105 == <<"2", "0", "2", "4", "-", "1", "-", "5">>
D20240230 == <<"2", "0", "2", "4", "-", "0", "2", "-", "3", "0">>
D20240601 == <<"2", "0", "2", "4", "-", "0", "6", "-", "0", "1">>
D99991231 == <<"9", "9", "9", "9", "-", "1", "2", "-", "3", "1">>
Garbage == <<"b", "a", "d">>

Form(name, contact, membership_type, join_date, expiry_date, source, note) ==
  [name |-> name, contact |-> contact, membership_type |-> membership_type,
   join_date |-> join_date, expiry_date |-> expiry_date, source |-> source, note |-> note]

\* request.form of a creation request: required fields missing, blank or malformed
ValidationForms ==
  {Form(n, None, t, j, None, None, None) :
     n \in {None, <<" ">>, <<" ">> \o Kim},
     t \in {<<" ">>, Monthly \o <<" ">>},
     j \in {None, D20240230, D20240101}}

\* every membership type, the expiry left to the calculator
DeriveForms ==
  {Form(Kim, None, t, D20240101, e, None, None) :
     t \in {Quarterly, Yearly, GardenBoxOnly, Vip}, e \in {None, D20240230}}

\* a join date at the end of the calendar
LateForms ==
  {Form(n, None, Monthly, D99991231, e, None, None) :
     n \in {<<" ">>, Kim}, e \in {None, D20240105}}

\* an expiry date given in the form
ExplicitForms ==
  {Form(Kim, None, Vip, j, D20240105, None, None) : j \in {None, D20240101}}

\* the optional text fields filled
TextForms ==
  {Form(Kim, <<"0", "1", "0">>, Monthly, D20240101, <<>>, <<" ", "W", "e", "b">>,
        <<"a", "\n", "b">>)}

Forms == ValidationForms \cup DeriveForms \cup LateForms \cup ExplicitForms \cup TextForms

NoForm == Form(None, None, None, None, None, None, None)

\* request.args of a listing or export request
ArgInputs ==
  {NoArgs,
   [NoArgs EXCEPT !.expired = Active],
   [NoArgs EXCEPT !.expired = <<" ">> \o Expired, !.join_from = D20240230],
   [NoArgs EXCEPT !.membership_type = Vip, !.exp_to = Garbage],
   [NoArgs EXCEPT !.exp_to = D20240601],
   [NoArgs EXCEPT !.q = <<" ", "_">>]}

\* date.today()
Todays == {parse_date(D20240105), parse_date(D20240601)}

\* a request: method, route, request.form, request.args, the URL's member_id
Request(method, route, form, args, member_id) ==
  [method |-> method, route |-> route, form |-> form, args |-> args,
   member_id |-> member_id]

NoRequest == Request("none", "none", NoForm, NoArgs, 0)

NoResponse ==
  [status |-> 0, route |-> "none", location |-> "none", args |-> NoArgs, body |-> <<>>]

Requests ==
  {Request("POST", "index", form, NoArgs, 0) : form \in Forms}
    \cup {Request("GET", "index", NoForm, args, 0) : args \in ArgInputs}
    \cup {Request("POST", "delete_member", NoForm, NoArgs, id) : id \in 0..(MaxId + 1)}
    \cup {Request("GET", "export_csv", NoForm, args, 0) : args \in ArgInputs}

\* ----------------------------------------------------------- state machine
Init ==
  /\ members = {}
  /\ flashes = <<>>
  /\ request = NoRequest
  /\ response = NoResponse

\* a client sends a request; requests are handled one at a time
Receive ==
  /\ request = NoRequest
  /\ request' \in Requests
  /\ response' = NoResponse
  /\ UNCHANGED <<members, flashes>>

\* the session holds at most MaxFlashes messages and the ids stay within MaxId
Fits(outcome) ==
  /\ Len(outcome.flashes) <= MaxFlashes
  /\ \A m \in outcome.members : m.id <= MaxId

\* the handler runs to completion and answers
Answer(outcome) ==
  /\ Fits(outcome)
  /\ members' = outcome.members
  /\ flashes' = outcome.flashes
  /\ response' = outcome.response
  /\ request' = NoRequest

PostIndex ==
  /\ request.method = "POST" /\ request.route = "index"
  /\ Answer(index_post(request.form))

GetIndex ==
  /\ request.method = "GET" /\ request.route = "index"
  /\ \E today \in Todays : Answer(index_get(request.args, today))

DeleteMember ==
  /\ request.method = "POST" /\ request.route = "delete_member"
  /\ Answer(delete_member(request.member_id))

ExportCsv ==
  /\ request.method = "GET" /\ request.route = "export_csv"
  /\ \E today \in Todays : Answer(export_csv(request.args, today))

Next == Receive \/ PostIndex \/ GetIndex \/ DeleteMember \/ ExportCsv

Spec == Init /\ [][Next]_vars

\* ------------------------------------------------------------------ claims
KnownTypes == {Monthly, Quarterly, Yearly, GardenBoxOnly}

\* the offsets the specification gives for the four membership classes
SpecOffset(membership_class) ==
  CASE membership_class = Monthly -> 30
    [] membership_class = Quarterly -> 90
    [] membership_class = Yearly -> 365
    [] membership_class = GardenBoxOnly -> 14

Trimmed(s) == strip(Or(s, <<>>))

\* the step in which a creation request is answered
CreationAnswered ==
  request.method = "POST" /\ request.route = "index" /\ request' = NoRequest

\* the step in which a deletion request is answered
DeletionAnswered ==
  request.method = "POST" /\ request.route = "delete_member" /\ request' = NoRequest

\* C1: a creation request with a known membership class, a join date J and no
\* explicit expiry date stores a member whose expiry date is J + 30, 90, 365
\* or 14 days.
DerivedExpiryIsJoinPlusOffset ==
  [][( /\ CreationAnswered
       /\ Trimmed(request.form.name) # <<>>
       /\ Trimmed(request.form.membership_type) \in KnownTypes
       /\ parse_date(request.form.join_date) # NoDate
       /\ Falsy(request.form.expiry_date) )
     => \E m \in members' \ members :
          /\ m.join_date = parse_date(request.form.join_date)
          /\ m.expiry_date = parse_date(request.form.join_date)
                               + SpecOffset(Trimmed(request.form.membership_type))]_vars

\* C2: when the form carries an explicit expiry date E the expiry computed is
\* E, whatever the join date and the membership class; the derivation does not
\* run, and a member stored by the request has expiry date E.
ExplicitExpiryWins ==
  [][( /\ CreationAnswered
       /\ parse_date(request.form.expiry_date) # NoDate )
     => /\ index_locals(request.form).expiry_date = parse_date(request.form.expiry_date)
        /\ response'.status = 302
        /\ \A m \in members' \ members :
             m.expiry_date = parse_date(request.form.expiry_date)]_vars

\* C2 witness: a member stored with the explicit expiry 2024-01-05 although
\* its class and join date would derive another one.
ExplicitExpiryStored ==
  \E m \in members :
    /\ m.expiry_date = ymd2ord(2024, 1, 5)
    /\ m.join_date = ymd2ord(9999, 12, 31)
    /\ m.membership_type = Monthly

\* C3: a creation request whose name, membership class or join date is missing
\* leaves the collection as it was, queues a notice and redirects to the listing.
MissingFieldIsRejected ==
  [][( /\ CreationAnswered
       /\ \/ Trimmed(request.form.name) = <<>>
          \/ Trimmed(request.form.membership_type) = <<>>
          \/ parse_date(request.form.join_date) = NoDate )
     => /\ members' = members
        /\ flashes' = Append(flashes, FlashRequired)
        /\ response'.status = 302
        /\ response'.location = "index"]_vars

\* C4: deleting an id that is not in the store is a not-found failure: the
\* collection stays as it was, no notice is queued and there is no redirect.
DeleteMissingIsNotFound ==
  [][( /\ DeletionAnswered
       /\ \A m \in members : m.id # request.member_id )
     => /\ response'.status = 404
        /\ response'.location = "none"
        /\ members' = members
        /\ flashes' = flashes]_vars

\* C4 witness: a not-found answer to a deletion while the store holds members.
DeleteMissingHappened ==
  /\ response.route = "delete_member"
  /\ response.status = 404
  /\ members # {}

\* a listing has just been answered; response.args are its criteria
ListingAnswered == response.route = "index" /\ response.status = 200

ClaimTodays == {1, ymd2ord(2024, 6, 1), MaxOrdinal}

\* C5: a member without expiry date is in the result of expiryState = active,
\* in no result of expiryState = expired and in no result of a filter with a
\* valid expFrom or expTo, whatever the other criteria and today.
AbsentExpiryFilters ==
  ListingAnswered =>
    \A m \in members :
      m.expiry_date = NoDate
      => \A today \in ClaimTodays :
           /\ m \in apply_filters(members, [NoArgs EXCEPT !.expired = Active], today)
           /\ \A x \in {None, Active, Expired}, f \in {None, D20240230, D20240101},
                 e \in {None, D99991231} :
                (x = Expired \/ f = D20240101 \/ e = D99991231)
                => m \notin apply_filters(members,
                                          [response.args EXCEPT !.expired = x,
                                                               !.exp_from = f,
                                                               !.exp_to = e],
                                          today)

\* C5 witness: the expired listing left out a stored member without expiry date.
AbsentExpiryListed ==
  /\ response.route = "index"
  /\ response.status = 200
  /\ Trimmed(response.args.expired) = Expired
  /\ \E m \in members :
       /\ m.expiry_date = NoDate
       /\ \A i \in 1..Len(response.body) : response.body[i].id # m.id

UnknownTypes == {Vip, <<" ", "G", "o", "l", "d", " ">>}

\* C6 as stated: an unknown membership class as filter criterion is no
\* constraint, the result is that of the same criteria without it.
UnknownClassIsNoConstraint ==
  ListingAnswered =>
    \A u \in UnknownTypes, today \in Todays :
      apply_filters(members, [response.args EXCEPT !.membership_type = u], today)
        = apply_filters(members, [response.args EXCEPT !.membership_type = None], today)

\* C6 amended: an unknown membership class as filter criterion is applied as
\* an exact match like any other value: the result is the members meeting the
\* other criteria whose stored class is the trimmed value.
UnknownClassIsExactMatch ==
  ListingAnswered =>
    \A u \in UnknownTypes, today \in Todays :
      apply_filters(members, [response.args EXCEPT !.membership_type = u], today)
        = {m \in apply_filters(members, [response.args EXCEPT !.membership_type = None],
                               today) : m.membership_type = Trimmed(u)}

\* C6 witness: a listing by the unknown class VIP came back empty from a store
\* that holds members.
UnknownClassListed ==
  /\ response.route = "index"
  /\ response.status = 200
  /\ response.args.membership_type = Vip
  /\ response.body = <<>>
  /\ members # {}

\* C7: no note field of an exported row holds a newline.
CsvNoteHasNoNewline ==
  (response.route = "export_csv" /\ response.status = 200)
  => \A i \in 1..Len(response.body) :
       \A k \in 1..Len(response.body[i][8]) : response.body[i][8][k] # "\n"

\* sub occurs in s
Contains(s, sub) == \E i \in 0..(Len(s) - Len(sub)) : SubSeq(s, i + 1, i + Len(sub)) = sub

LiteralMatch(m, q) ==
  \E field \in {m.name, m.contact, m.source, m.note} :
    field # None /\ Contains(lower(field), lower(q))

\* C8: with a text query q alone, the listing holds exactly the members one of
\* whose name, contact, source or note contains q literally, case-insensitively.
TextQueryIsLiteralSubstring ==
  ( /\ response.route = "index"
    /\ response.status = 200
    /\ Trimmed(response.args.q) # <<>>
    /\ response.args = [NoArgs EXCEPT !.q = response.args.q] )
  => {response.body[i] : i \in 1..Len(response.body)}
       = {m \in members : LiteralMatch(m, Trimmed(response.args.q))}

MalformedDates ==
  {Garbage, D20240230, D20240101 \o <<" ">>,
   <<"2", "0", "2", "4", "/", "0", "1", "/", "0", "1">>}

\* C9: a malformed date string as joinFrom, joinTo, expFrom or expTo is an
\* absent bound: the result is that of the same criteria with the bound omitted.
MalformedBoundIsAbsent ==
  ListingAnswered =>
    \A s \in MalformedDates, today \in Todays :
      /\ apply_filters(members, [response.args EXCEPT !.join_from = s], today)
           = apply_filters(members, [response.args EXCEPT !.join_from = None], today)
      /\ apply_filters(members, [response.args EXCEPT !.join_to = s], today)
           = apply_filters(members, [response.args EXCEPT !.join_to = None], today)
      /\ apply_filters(members, [response.args EXCEPT !.exp_from = s], today)
           = apply_filters(members, [response.args EXCEPT !.exp_from = None], today)
      /\ apply_filters(members, [response.args EXCEPT !.exp_to = s], today)
           = apply_filters(members, [response.args EXCEPT !.exp_to = None], today)

\* C9 witness: a listing asked with joinFrom = 2024-02-30 shows members.
MalformedBoundListed ==
  /\ response.route = "index"
  /\ response.status = 200
  /\ response.args.join_from = D20240230
  /\ response.body # <<>>

\* C10: every stored member has one of the four membership classes, a
\* non-empty name and a join date.
MembershipClassIsEnumerated ==
  \A m \in members :
    /\ m.membership_type \in KnownTypes
    /\ m.name # <<>> /\ m.name # None
    /\ m.join_date # NoDate

====
